---- MODULE Spec2Model ----
(***************************************************************************)
(* Dark-channel-prior dehazing: the numeric pipeline of src/src/dehaze.py  *)
(* (get_dark_channel, get_atmosphere, get_transmission, dehaze_raw,        *)
(* get_radiance, to_img, dehaze) and the command line of src/src/main.py.  *)
(*                                                                         *)
(* Numbers.  The code computes in numpy float64.  A value is modelled as   *)
(* an exact rational in lowest terms, or one of the IEEE specials NaN,     *)
(* +inf, -inf that float64 division by zero produces (numpy warns and goes *)
(* on, it does not raise).  Rounding and signed zeros are not modelled.    *)
(* Arrays are functions over 0-based index ranges, as in the code.         *)
(***************************************************************************)
EXTENDS Integers, Sequences, FiniteSets, TLC

VARIABLES
    mode,       \* "api": dehaze(img, ...) called directly; "cli": main()
    args,       \* the parsed command line (main.py:53)
    todo,       \* img_files still to process in main's loop (main.py:59)
    saved,      \* <<file, suffix>> of every image written (main.py:30-34)
    img,        \* the decoded image: M x N x 3 integers
    params,     \* the parameters dehaze runs with
    pc,         \* position in the run
    I,          \* np.asarray(img, dtype=float64) (dehaze.py:205)
    Idark,      \* dehaze_raw's dark channel
    atm_light,  \* dehaze_raw's atmosphere light
    rawt,       \* dehaze_raw's rawt
    refinedt,   \* dehaze_raw's refinedt
    out,        \* the five images dehaze returns
    err         \* the exception that ended the run, if any

vars == <<mode, args, todo, saved, img, params, pc, I, Idark, atm_light,
          rawt, refinedt, out, err>>

----------------------------------------------------------------------------
(* Bounds of the model *)

MaxM == 2
MaxN == 2
MaxW == 3

(* Program constants *)

max_color_val == 256
R == 0
G == 1
B == 2
Channels == {R, G, B}

----------------------------------------------------------------------------
(* float64 values *)

Abs(x) == IF x < 0 THEN -x ELSE x

RECURSIVE GCD(_, _)
GCD(a, b) == IF b = 0 THEN a ELSE GCD(b, a % b)

\* The rational n/d (d # 0) in lowest terms with a positive denominator.
Fin(n, d) ==
    LET s == IF d < 0 THEN -1 ELSE 1
        g == GCD(Abs(n), Abs(d))
    IN  [k |-> "fin", n |-> (s * n) \div g, d |-> (s * d) \div g]

NaN  == [k |-> "nan",  n |-> 0, d |-> 1]
PInf == [k |-> "pinf", n |-> 0, d |-> 1]
NInf == [k |-> "ninf", n |-> 0, d |-> 1]

Float(i) == Fin(i, 1)
Zero == Float(0)
One == Float(1)

IsNaN(x) == x.k = "nan"
IsFin(x) == x.k = "fin"

Sign(x) ==
    CASE x.k = "pinf" -> 1
      [] x.k = "ninf" -> -1
      [] x.k = "nan"  -> 0
      [] OTHER        -> IF x.n > 0 THEN 1 ELSE IF x.n < 0 THEN -1 ELSE 0

Signed(s) == IF s > 0 THEN PInf ELSE NInf

\* x < y and x <= y; every comparison with NaN is false.
FLt(x, y) ==
    /\ ~IsNaN(x) /\ ~IsNaN(y) /\ x # y
    /\ \/ x.k = "ninf"
       \/ y.k = "pinf"
       \/ IsFin(x) /\ IsFin(y) /\ x.n * y.d < y.n * x.d

FLe(x, y) == ~IsNaN(x) /\ ~IsNaN(y) /\ (x = y \/ FLt(x, y))

FNeg(x) ==
    CASE x.k = "pinf" -> NInf
      [] x.k = "ninf" -> PInf
      [] x.k = "nan"  -> NaN
      [] OTHER        -> Fin(-x.n, x.d)

FAdd(x, y) ==
    IF IsNaN(x) \/ IsNaN(y) THEN NaN
    ELSE IF IsFin(x) /\ IsFin(y) THEN Fin(x.n * y.d + y.n * x.d, x.d * y.d)
    ELSE IF IsFin(x) THEN y
    ELSE IF IsFin(y) THEN x
    ELSE IF x = y THEN x ELSE NaN

FSub(x, y) == FAdd(x, FNeg(y))

FMul(x, y) ==
    IF IsNaN(x) \/ IsNaN(y) THEN NaN
    ELSE IF IsFin(x) /\ IsFin(y) THEN Fin(x.n * y.n, x.d * y.d)
    ELSE IF Sign(x) = 0 \/ Sign(y) = 0 THEN NaN
    ELSE Signed(Sign(x) * Sign(y))

\* numpy float64 division: x/0 is +-inf, 0/0 is NaN, nothing is raised.
FDiv(x, y) ==
    IF IsNaN(x) \/ IsNaN(y) THEN NaN
    ELSE IF IsFin(y) /\ y.n = 0
         THEN IF Sign(x) = 0 THEN NaN ELSE Signed(Sign(x))
    ELSE IF ~IsFin(y)
         THEN IF IsFin(x) THEN Zero ELSE NaN
    ELSE IF ~IsFin(x) THEN Signed(Sign(x) * Sign(y))
    ELSE Fin(x.n * y.d, x.d * y.n)

\* np.maximum / np.minimum of two scalars: NaN propagates.
NpMaximum(x, y) ==
    IF IsNaN(x) \/ IsNaN(y) THEN NaN ELSE IF FLt(x, y) THEN y ELSE x

NpMinimum(x, y) ==
    IF IsNaN(x) \/ IsNaN(y) THEN NaN ELSE IF FLt(y, x) THEN y ELSE x

\* np.min / np.max of a non-empty collection of scalars: NaN propagates.
NpMin(S) ==
    IF \E x \in S : IsNaN(x) THEN NaN
    ELSE CHOOSE x \in S : \A y \in S : FLe(x, y)

NpMax(S) ==
    IF \E x \in S : IsNaN(x) THEN NaN
    ELSE CHOOSE x \in S : \A y \in S : FLe(y, x)

----------------------------------------------------------------------------
(* Arrays *)

Height(a) == Cardinality(DOMAIN a)
Width(a) == Cardinality(DOMAIN a[0])
Positions(a) == (0 .. Height(a) - 1) \X (0 .. Width(a) - 1)

\* An exception raised / a value returned by a function of the code.
Raise(type, at) == [ok |-> FALSE, val |-> <<>>, type |-> type, at |-> at]
Return(v)       == [ok |-> TRUE,  val |-> v,    type |-> "",   at |-> ""]

NoErr == [type |-> "", at |-> ""]
Unset == <<>>

----------------------------------------------------------------------------
(* dehaze.py *)

Clip(x, lo, hi) == IF x < lo THEN lo ELSE IF x > hi THEN hi ELSE x

\* The bounds a Python slice a[start:stop] reads of an axis of length n
\* (0 <= start): the indices start .. min(stop, n) - 1.
Slice(start, stop, n) == start .. (Clip(stop, 0, n) - 1)

\* (Variant: the pad width rounded up.)
PadWidthCeil(w) == (w + 1) \div 2
\* w / 2 on Python 2 integers: floor division.
PadWidth(w) == w \div 2

\* np.pad(a, ((q, q), (q, q), (0, 0)), 'edge'): q copies of the border rows
\* and columns on each side.
NpPadEdge(a, q) ==
    LET M == Height(a)
        N == Width(a)
    IN  [i \in 0 .. M + 2 * q - 1 |->
            [j \in 0 .. N + 2 * q - 1 |->
                a[Clip(i - q, 0, M - 1)][Clip(j - q, 0, N - 1)]]]

\* get_dark_channel(I, w).  np.pad refuses a negative pad width and np.min
\* an empty window: both raise ValueError.
get_dark_channel(a, w) ==
    IF PadWidth(w) < 0 THEN Raise("ValueError", "get_dark_channel")
    ELSE
    LET M == Height(a)
        N == Width(a)
        padded == NpPadEdge(a, PadWidth(w))
        window(i, j) ==
            { padded[x][y][c] : x \in Slice(i, i + w, Height(padded)),
                                y \in Slice(j, j + w, Width(padded)),
                                c \in Channels }
    IN  IF window(0, 0) = {} THEN Raise("ValueError", "get_dark_channel")
        ELSE Return([i \in 0 .. M - 1 |->
                        [j \in 0 .. N - 1 |-> NpMin(window(i, j))]])

\* int(x) of the float M * N * p, p the rational pn/pd: truncation to zero.
IntTrunc(n, d) == IF n >= 0 THEN n \div d ELSE -((-n) \div d)

\* The index sets (-flat_dark).argsort()[:int(M * N * p)] can be: argsort's
\* default sort is not stable, so among equal dark-channel values any order
\* may come out.  A position (i, j) stands for the flat index i * N + j.
SearchIdx(dark_ch, p) ==
    LET n == Height(dark_ch) * Width(dark_ch)
        k == IntTrunc(n * p[1], p[2])
        stop == IF k < 0 THEN Clip(n + k, 0, n) ELSE Clip(k, 0, n)
    IN  { S \in SUBSET Positions(dark_ch) :
            /\ Cardinality(S) = stop
            /\ \A s \in S : \A t \in Positions(dark_ch) \ S :
                   FLe(dark_ch[t[1]][t[2]], dark_ch[s[1]][s[2]]) }

\* (Variant: an empty selection yields a default instead of an exception.)
NpMaxAxis0Default(rows) ==
    IF rows = {} THEN Return([c \in Channels |-> Zero])
    ELSE Return([c \in Channels |-> NpMax({ r[c] : r \in rows })])
\* np.max(rows, axis=0): the per-channel maximum; a zero-size array has no
\* maximum and numpy raises ValueError.
NpMaxAxis0(rows) ==
    IF rows = {} THEN Raise("ValueError", "get_atmosphere")
    ELSE Return([c \in Channels |-> NpMax({ r[c] : r \in rows })])

\* get_atmosphere(I, dark_ch, p), for one outcome search_idx of the sort.
get_atmosphere(a, search_idx) ==
    NpMaxAxis0({ a[s[1]][s[2]] : s \in search_idx })

\* (Variant: the clamp left out.)
ClampAtmosphereOff(atm, atm_max) == atm
\* np.minimum(atm_light, atm_max)
ClampAtmosphere(atm, atm_max) ==
    [c \in Channels |-> NpMinimum(atm[c], Float(atm_max))]

\* I / A: A broadcast over the pixels.
DivideByLight(a, atm) ==
    [i \in DOMAIN a |-> [j \in DOMAIN a[i] |->
        [c \in Channels |-> FDiv(a[i][j][c], atm[c])]]]

\* (Variant: the bias added instead of subtracted.)
get_transmission_plus(a, atm, omega, w) ==
    LET d == get_dark_channel(DivideByLight(a, atm), w).val
    IN  [i \in DOMAIN d |-> [j \in DOMAIN d[i] |->
            FAdd(One, FMul(omega, d[i][j]))]]
\* get_transmission(I, A, omega, w) = 1 - omega * get_dark_channel(I / A, w)
get_transmission(a, atm, omega, w) ==
    LET d == get_dark_channel(DivideByLight(a, atm), w).val
    IN  [i \in DOMAIN d |-> [j \in DOMAIN d[i] |->
            FSub(One, FMul(omega, d[i][j]))]]

\* (Variant: the floor left out.)
ClampTransmissionOff(t, t_min) == t
\* np.maximum(rawt, t_min)
ClampTransmission(t, t_min) ==
    [i \in DOMAIN t |-> [j \in DOMAIN t[i] |-> NpMaximum(t[i][j], t_min)]]

\* normI = (I - I.min()) / (I.max() - I.min()): NaN everywhere for a
\* constant image.
NormI(a) ==
    LET all == { a[s[1]][s[2]][c] : s \in Positions(a), c \in Channels }
        lo == NpMin(all)
        hi == NpMax(all)
    IN  [i \in DOMAIN a |-> [j \in DOMAIN a[i] |->
            [c \in Channels |-> FDiv(FSub(a[i][j][c], lo), FSub(hi, lo))]]]

\* (Variant: the atmosphere light not added back.)
get_radiance_noadd(a, atm, trans) ==
    [i \in DOMAIN a |-> [j \in DOMAIN a[i] |->
        [c \in Channels |-> FDiv(FSub(a[i][j][c], atm[c]), trans[i][j])]]]
\* get_radiance(I, atm_light, trans) = (I - atm_light) / tiledt + atm_light
get_radiance(a, atm, trans) ==
    [i \in DOMAIN a |-> [j \in DOMAIN a[i] |->
        [c \in Channels |->
            FAdd(FDiv(FSub(a[i][j][c], atm[c]), trans[i][j]), atm[c])]]]

\* One element of to_img: np.maximum(np.minimum(x, 255), 0).astype(np.uint8).
\* The clip keeps a NaN; casting NaN to uint8 is undefined in C, and nanbyte
\* is the byte that cast yields (NanCasts: the outcomes the model draws from).
\* A value in range is truncated.
NanCasts == { 0, max_color_val - 1 }

ToByte(x, nanbyte) ==
    LET cut == NpMaximum(NpMinimum(x, Float(max_color_val - 1)), Zero)
    IN  IF IsNaN(cut) THEN nanbyte ELSE cut.n \div cut.d

to_img(raw, nanbyte) ==
    [i \in DOMAIN raw |-> [j \in DOMAIN raw[i] |-> ToByte(raw[i][j], nanbyte)]]

to_img3(raw, nanbyte) ==
    [i \in DOMAIN raw |-> [j \in DOMAIN raw[i] |->
        [c \in Channels |-> ToByte(raw[i][j][c], nanbyte)]]]

\* white * t, white = np.full_like(Idark, max_color_val - 1)
Scale(t) ==
    [i \in DOMAIN t |-> [j \in DOMAIN t[i] |->
        FMul(Float(max_color_val - 1), t[i][j])]]

HasNaN(t) == \E s \in Positions(t) : IsNaN(t[s[1]][s[2]])
HasNaN3(a) == \E s \in Positions(a) : \E c \in Channels : IsNaN(a[s[1]][s[2]][c])

----------------------------------------------------------------------------
(* guidedfilter.guided_filter: the module is imported by dehaze.py and is   *)
(* not part of the sources at hand.  It is modelled by its contract: it     *)
(* returns some grid of the shape of its input, and may fail on degenerate  *)
(* (zero-variance, here NaN) guidance.  Of the grids it may return the      *)
(* model draws the input itself and the flat grids of one of GuidedValues.  *)

GuidedValues == { Fin(1, 10), One }

guided_filter(guidance, input, r, eps) ==
    { Return(input) }
    \cup { Return([i \in DOMAIN input |-> [j \in DOMAIN input[i] |-> v]]) :
             v \in GuidedValues }
    \cup (IF HasNaN3(guidance)
          THEN { Raise("NumericError", "guided_filter") } ELSE {})

----------------------------------------------------------------------------
(* dehaze's signature (dehaze.py:187-188) and a call by keyword *)

DehazeParams == {"img", "t_min", "atm_max", "w", "p", "omega", "guided", "r", "eps"}

DehazeDefaults ==
    [t_min |-> Fin(1, 5), atm_max |-> 220, w |-> 15, p |-> <<1, 10000>>,
     omega |-> Fin(19, 20), guided |-> TRUE, r |-> 40, eps |-> Fin(1, 1000)]

\* Python binds each keyword to the parameter of that name; a keyword that
\* names no parameter is a TypeError.
BindKeywords(kw) ==
    IF DOMAIN kw \subseteq DehazeParams
    THEN Return([n \in DOMAIN DehazeDefaults |->
                    IF n \in DOMAIN kw THEN kw[n] ELSE DehazeDefaults[n]])
    ELSE Raise("TypeError", "dehaze")

(* main.py *)

\* partial(dehaze, tmin=args.tmin, Amax=args.Amax, w=args.window, r=args.radius)
MainKeywords(a) ==
    [tmin |-> a.tmin, Amax |-> a.Amax, w |-> a.window, r |-> a.radius]

\* The five files generate_results writes for one input.
Suffixes == {"dark.png", "rawt.png", "refinedt.png",
             "radiance-rawt.png", "radiance-refinedt.png"}

----------------------------------------------------------------------------
(* The inputs the model draws *)

Pixel(r, g, b) == [c \in Channels |-> <<r, g, b>>[c + 1]]

Pixels == { Pixel(0, 0, 0), Pixel(100, 100, 100), Pixel(255, 200, 40) }

Images ==
    UNION { [0 .. M - 1 -> [0 .. N - 1 -> Pixels]] : M \in 1 .. MaxM, N \in 1 .. MaxN }

Windows == 0 .. MaxW
Fractions == { <<1, 2>>, <<1, 1>>, <<2, 1>> }
Omegas == { Fin(19, 20), One }
TMins == { Zero, Fin(1, 5) }
AtmMaxs == { 100, 220 }

FileNames == { "a.png", "b.png" }
Inputs == { [given |-> FALSE, files |-> <<>>],
            [given |-> TRUE, files |-> <<"a.png">>],
            [given |-> TRUE, files |-> <<"b.png", "a.png">>] }

NoArgs == [input |-> [given |-> FALSE, files |-> <<>>], tmin |-> Fin(1, 5),
           Amax |-> 220, window |-> 15, radius |-> 40, exist |-> {}]

\* np.asarray(img, dtype=np.float64)
AsArray(im) ==
    [i \in DOMAIN im |-> [j \in DOMAIN im[i] |->
        [c \in Channels |-> Float(im[i][j][c])]]]

\* Before the call: nothing has run.
NothingRun ==
    /\ todo = <<>>
    /\ saved = {}
    /\ pc = "start"
    /\ I = Unset
    /\ Idark = Unset
    /\ atm_light = Unset
    /\ rawt = Unset
    /\ refinedt = Unset
    /\ out = Unset
    /\ err = NoErr

\* What the files named on the command line decode to.
FileImages == { im \in Images : Height(im) = 1 /\ Width(im) = 1 }

Init ==
    /\ mode \in {"api", "cli"}
    /\ img \in IF mode = "api" THEN Images ELSE FileImages
    /\ IF mode = "api"
       THEN /\ args = NoArgs
            /\ \E w \in Windows, p \in Fractions, omega \in Omegas,
                  t_min \in TMins, atm_max \in AtmMaxs, guided \in BOOLEAN :
                  params = [DehazeDefaults EXCEPT
                               !.w = w, !.p = p, !.omega = omega, !.t_min = t_min,
                               !.atm_max = atm_max, !.guided = guided]
       ELSE /\ \E input \in Inputs, tmin \in TMins, Amax \in AtmMaxs,
                  window \in 1 .. MaxW, exist \in SUBSET FileNames :
                  args = [input |-> input, tmin |-> tmin, Amax |-> Amax,
                          window |-> window, radius |-> 40, exist |-> exist]
            /\ params = DehazeDefaults
    /\ NothingRun

Fail(r) ==
    /\ pc' = "failed"
    /\ err' = [type |-> r.type, at |-> r.at]

\* main(): parse the arguments; without --input only a message is printed.
Main ==
    /\ mode = "cli" /\ pc = "start"
    /\ IF args.input.given
       THEN todo' = args.input.files /\ pc' = "loop"
       ELSE todo' = todo /\ pc' = "done"
    /\ UNCHANGED <<mode, args, saved, img, params, I, Idark, atm_light,
                   rawt, refinedt, out, err>>

\* One turn of main's loop up to the call of dehaze: generate_results opens
\* the file and calls partial(dehaze, ...)(im).
GenerateResults ==
    /\ mode = "cli" /\ pc = "loop" /\ todo # <<>>
    /\ LET bound == BindKeywords(MainKeywords(args))
       IN  IF Head(todo) \notin args.exist
           THEN Fail(Raise("IOError", "Image.open")) /\ UNCHANGED <<params, I>>
           ELSE IF ~bound.ok
           THEN Fail(bound) /\ UNCHANGED <<params, I>>
           ELSE /\ params' = bound.val
                /\ I' = AsArray(img)
                /\ pc' = "dark"
                /\ err' = err
    /\ UNCHANGED <<mode, args, todo, saved, img, Idark, atm_light,
                   rawt, refinedt, out>>

\* dehaze(img, t_min, atm_max, w, p, omega, guided, r, eps) called directly.
Dehaze ==
    /\ mode = "api" /\ pc = "start"
    /\ I' = AsArray(img)
    /\ pc' = "dark"
    /\ UNCHANGED <<mode, args, todo, saved, img, params, Idark, atm_light,
                   rawt, refinedt, out, err>>

\* dehaze_raw: Idark = get_dark_channel(I, w)
DarkChannel ==
    /\ pc = "dark"
    /\ LET d == get_dark_channel(I, params.w)
       IN  IF d.ok
           THEN Idark' = d.val /\ pc' = "atm" /\ err' = err
           ELSE Fail(d) /\ Idark' = Idark
    /\ UNCHANGED <<mode, args, todo, saved, img, params, I, atm_light,
                   rawt, refinedt, out>>

\* dehaze_raw: atm_light = np.minimum(get_atmosphere(I, Idark, p), atm_max)
Atmosphere ==
    /\ pc = "atm"
    /\ \E search_idx \in SearchIdx(Idark, params.p) :
         LET a == get_atmosphere(I, search_idx)
         IN  IF a.ok
             THEN /\ atm_light' = ClampAtmosphere(a.val, params.atm_max)
                  /\ pc' = "trans" /\ err' = err
             ELSE Fail(a) /\ atm_light' = atm_light
    /\ UNCHANGED <<mode, args, todo, saved, img, params, I, Idark,
                   rawt, refinedt, out>>

\* dehaze_raw: rawt = get_transmission(I, atm_light, omega, w)
Transmission ==
    /\ pc = "trans"
    /\ rawt' = get_transmission(I, atm_light, params.omega, params.w)
    /\ pc' = "clamp"
    /\ UNCHANGED <<mode, args, todo, saved, img, params, I, Idark, atm_light,
                   refinedt, out, err>>

\* dehaze_raw: rawt = refinedt = np.maximum(rawt, t_min), then the guided
\* filter if asked for; dehaze_raw returns.
Refine ==
    /\ pc = "clamp"
    /\ LET clamped == ClampTransmission(rawt, params.t_min)
       IN  IF params.guided
           THEN \E g \in guided_filter(NormI(I), clamped, params.r, params.eps) :
                   IF g.ok
                   THEN /\ rawt' = clamped /\ refinedt' = g.val
                        /\ pc' = "radiance" /\ err' = err
                   ELSE Fail(g) /\ UNCHANGED <<rawt, refinedt>>
           ELSE /\ rawt' = clamped /\ refinedt' = clamped
                /\ pc' = "radiance" /\ err' = err
    /\ UNCHANGED <<mode, args, todo, saved, img, params, I, Idark, atm_light, out>>

\* dehaze: the five images; under main, generate_results saves them and the
\* loop goes on.
Package ==
    /\ pc = "radiance"
    /\ LET rawrad == get_radiance(I, atm_light, rawt)
           rerad == get_radiance(I, atm_light, refinedt)
           undefined == HasNaN(rawt) \/ HasNaN(refinedt)
                        \/ HasNaN3(rawrad) \/ HasNaN3(rerad)
       IN  \E nanbyte \in (IF undefined THEN NanCasts ELSE {0}) :
              out' = [dark |-> to_img(Idark, nanbyte),
                      rawt |-> to_img(Scale(rawt), nanbyte),
                      refinedt |-> to_img(Scale(refinedt), nanbyte),
                      rawrad |-> to_img3(rawrad, nanbyte),
                      rerad |-> to_img3(rerad, nanbyte)]
    /\ IF mode = "cli"
       THEN /\ saved' = saved \cup { <<Head(todo), s>> : s \in Suffixes }
            /\ todo' = Tail(todo)
            /\ pc' = IF Tail(todo) = <<>> THEN "done" ELSE "loop"
       ELSE /\ saved' = saved /\ todo' = todo /\ pc' = "done"
    /\ UNCHANGED <<mode, args, img, params, I, Idark, atm_light, rawt, refinedt, err>>

Next ==
    \/ Main
    \/ GenerateResults
    \/ Dehaze
    \/ DarkChannel
    \/ Atmosphere
    \/ Transmission
    \/ Refine
    \/ Package

Spec == Init /\ [][Next]_vars

\* get_dark_channel alone: dehaze called on every image and window size of
\* the model, run up to the dark channel.
InitDark ==
    /\ mode = "api"
    /\ img \in Images
    /\ args = NoArgs
    /\ \E size \in Windows : params = [DehazeDefaults EXCEPT !.w = size]
    /\ NothingRun

NextDark ==
    \/ Dehaze
    \/ DarkChannel

SpecDark == InitDark /\ [][NextDark]_vars

----------------------------------------------------------------------------
(* Properties *)

t_min == params.t_min
atm_max == params.atm_max
w == params.w
omega == params.omega

\* dehaze has been entered.
Entered == I # Unset

\* floor(M * N * p)
FloorCount == (Height(img) * Width(img) * params.p[1]) \div params.p[2]

\* The image extended by edge replication: a position outside the image
\* reads the nearest border pixel.
Extended(a, x, y) == a[Clip(x, 0, Height(a) - 1)][Clip(y, 0, Width(a) - 1)]

\* The rows (columns) of the size x size window centered at i: it starts
\* floor(size / 2) before i.
WindowRange(i, size) == (i - size \div 2) .. (i - size \div 2 + size - 1)

\* The values, over the 3 channels, of the window centered at (i, j).
WindowValues(a, size, i, j) ==
    { Extended(a, x, y)[c] :
        x \in WindowRange(i, size), y \in WindowRange(j, size), c \in Channels }

\* v is the minimum of the non-empty set S of numbers.
IsMinimum(v, S) == v \in S /\ \A u \in S : FLe(v, u)

\* C1: once get_dark_channel(I, w) has returned, w >= 1, the result is an
\* M x N grid, and its cell (i, j) is the minimum over the 3 channels of the
\* w x w window centered at (i, j) of the image extended by edge replication;
\* the window never reaches further than floor(w / 2) past the border.
DarkChannelIsWindowMinimum ==
    Idark # Unset =>
        /\ w >= 1
        /\ DOMAIN Idark = DOMAIN img
        /\ \A i \in DOMAIN img :
             /\ DOMAIN Idark[i] = DOMAIN img[i]
             /\ WindowRange(i, w) \subseteq (0 - w \div 2) .. (Height(img) - 1 + w \div 2)
             /\ \A j \in DOMAIN img[i] :
                  /\ WindowRange(j, w) \subseteq
                        (0 - w \div 2) .. (Width(img) - 1 + w \div 2)
                  /\ IsMinimum(Idark[i][j], WindowValues(I, w, i, j))

\* C1's case: an even window on a 2 x 2 image, where the corner (0, 0) sees
\* only itself and (1, 1) sees the whole image, and the two minima differ.
DarkChannelWitness ==
    /\ Idark # Unset
    /\ w = 2 /\ Height(img) = 2 /\ Width(img) = 2
    /\ Idark[0][0] # Idark[1][1]
    /\ Idark[1][1] # NpMin({ I[1][1][c] : c \in Channels })

\* C2: every transmission value get_radiance divides by, for the
\* radiance-from-raw and the radiance-from-refined image, is >= t_min.
\* Stated for the runs whose atmosphere light is positive in every channel,
\* where every map is a number; a run with a zero channel (C5) breaks it
\* with guided = false as well, its maps being NaN.
DivisorsAtLeastTMin ==
    (pc = "radiance" /\ \A c \in Channels : FLt(Zero, atm_light[c])) =>
        \A s \in Positions(rawt) :
            /\ FLe(t_min, rawt[s[1]][s[2]])
            /\ FLe(t_min, refinedt[s[1]][s[2]])

\* C3: the atmosphere light dehaze_raw holds from its estimation on, which
\* is the one get_transmission and get_radiance read, has each component
\* <= atm_max.
AtmosphereLightWithinAtmMax ==
    atm_light # Unset =>
        \A c \in Channels : FLe(atm_light[c], Float(atm_max))

\* C3's case: a channel of a selected pixel exceeded atm_max and was clamped.
AtmosphereClampWitness ==
    /\ pc = "trans"
    /\ \E c \in Channels :
         /\ atm_light[c] = Float(atm_max)
         /\ \A s \in Positions(I) : FLt(Float(atm_max), I[s[1]][s[2]][c])

\* C4: when floor(M * N * p) = 0 the run never gets past the atmosphere
\* estimation: it holds no atmosphere light, no transmission map and no
\* output, and once the estimation has been reached it has failed, with the
\* exception numpy raises for the maximum of an empty selection.
EmptySelectionFails ==
    (Entered /\ FloorCount = 0) =>
        /\ atm_light = Unset /\ rawt = Unset /\ refinedt = Unset /\ out = Unset
        /\ pc \in {"dark", "atm", "failed"}
        /\ pc = "failed" => err.type = "ValueError"
        /\ (pc = "failed" /\ w >= 1) => err.at = "get_atmosphere"

\* C4's case: a one-pixel image with p = 1/2 has failed in get_atmosphere.
EmptySelectionWitness ==
    /\ Entered /\ FloorCount = 0 /\ params.p[1] > 0
    /\ pc = "failed" /\ err.at = "get_atmosphere"
    /\ Idark # Unset

\* C5: with a component of the clamped atmosphere light <= 0 the transmission
\* estimation fails: no raw map, refined map or output comes of such an A.
NonPositiveLightFails ==
    (atm_light # Unset /\ \E c \in Channels : FLe(atm_light[c], Zero)) =>
        /\ rawt = Unset /\ refinedt = Unset /\ out = Unset
        /\ pc \in {"trans", "failed"}

\* The parameter values the error taxonomy calls invalid.
InvalidParameter ==
    \/ w <= 0
    \/ params.p[1] <= 0 \/ params.p[1] > params.p[2]
    \/ params.r <= 0
    \/ ~FLt(Zero, params.eps)
    \/ ~(FLe(Zero, t_min) /\ FLe(t_min, Float(max_color_val - 1)))
    \/ ~(0 <= atm_max /\ atm_max <= max_color_val - 1)

\* C6: a call with an invalid parameter fails before any stage has run.
\* Stated in the part of it that is about the result: such a call does not
\* end normally and returns no image.  (The whole claim would have Idark,
\* atm_light, rawt and refinedt unset too, and fails some steps earlier.)
InvalidParameterFailsFirst ==
    (Entered /\ InvalidParameter) => (out = Unset /\ pc # "done")

\* The maximum of a number or NaN x and a number y.
MaxWith(x, y) == IF IsNaN(x) THEN x ELSE IF FLt(x, y) THEN y ELSE x

\* C7: with guided = false, the refinedt dehaze_raw returns is, cell by cell,
\* max(raw, t_min) with raw = 1 - omega * (the windowed minimum of I / A),
\* the guided filter has not changed it, and rawt = refinedt.
UnguidedRefinedIsClampedRaw ==
    (refinedt # Unset /\ ~params.guided) =>
        /\ rawt = refinedt
        /\ DOMAIN refinedt = DOMAIN img
        /\ \A i \in DOMAIN img :
             /\ DOMAIN refinedt[i] = DOMAIN img[i]
             /\ \A j \in DOMAIN img[i] :
                  LET normalized ==
                          [x \in DOMAIN I |-> [y \in DOMAIN I[x] |->
                              [c \in Channels |-> FDiv(I[x][y][c], atm_light[c])]]]
                      raw == FSub(One, FMul(omega,
                                 NpMin(WindowValues(normalized, w, i, j))))
                  IN  refinedt[i][j] = MaxWith(raw, t_min)

\* C7's case: guided = false, one cell was raised to t_min and another,
\* above t_min, was left as it was.
UnguidedWitness ==
    /\ pc = "radiance" /\ ~params.guided
    /\ \E s \in Positions(refinedt) : refinedt[s[1]][s[2]] = t_min
    /\ \E s \in Positions(refinedt) : FLt(t_min, refinedt[s[1]][s[2]])
    /\ FLt(Zero, t_min)

\* Every pixel and channel of the image is c.
Constant(c) == \A s \in Positions(img) : \A ch \in Channels : img[s[1]][s[2]][ch] = c

\* The case of C8: a constant image of value c, 0 < c <= atm_max, w >= 1,
\* floor(M * N * p) >= 1, guided = false.
ConstantCase(c) ==
    /\ Entered /\ Constant(c) /\ c <= atm_max
    /\ w >= 1 /\ FloorCount >= 1 /\ ~params.guided

\* C8 as stated: in that case the dark channel is c everywhere, the
\* atmosphere light is (c, c, c), and both radiance images equal the input
\* after to_img.
ConstantImageIsRecoveredAlways ==
    \A c \in 1 .. max_color_val - 1 :
        ConstantCase(c) =>
            /\ Idark # Unset =>
                 \A s \in Positions(img) : Idark[s[1]][s[2]] = Float(c)
            /\ atm_light # Unset =>
                 \A ch \in Channels : atm_light[ch] = Float(c)
            /\ out # Unset => out.rawrad = img /\ out.rerad = img

\* C8 as amended: in that case, and with a floored transmission
\* max(1 - omega, t_min) that is not 0, the run does not fail, the dark
\* channel is c everywhere, the atmosphere light is (c, c, c), and both
\* radiance images equal the input after to_img.
ConstantImageIsRecovered ==
    \A c \in 1 .. max_color_val - 1 :
        (ConstantCase(c) /\ MaxWith(FSub(One, omega), t_min) # Zero) =>
            /\ pc # "failed"
            /\ Idark # Unset =>
                 \A s \in Positions(img) : Idark[s[1]][s[2]] = Float(c)
            /\ atm_light # Unset =>
                 \A ch \in Channels : atm_light[ch] = Float(c)
            /\ out # Unset =>
                 /\ out.rawrad = img
                 /\ out.rerad = img
                 /\ \A s \in Positions(img) : out.dark[s[1]][s[2]] = c

\* The case of the amended C8: the 2 x 2 image of (100, 100, 100) with w = 3, p = 1/2,
\* omega = 0.95, t_min = 0.2, guided = false has run to the end.
ConstantImageWitness ==
    /\ pc = "done" /\ mode = "api"
    /\ Constant(100) /\ Height(img) = 2 /\ Width(img) = 2
    /\ w = 3 /\ params.p = <<1, 2>> /\ omega = Fin(19, 20) /\ t_min = Fin(1, 5)
    /\ ~params.guided
    /\ out.rawrad = img /\ out.rerad = img

\* The biases the raw transmission is compared at.
Biases == { Zero, Fin(1, 2), Fin(19, 20), One }

AtmospherePositive == \A c \in Channels : FLt(Zero, atm_light[c])

\* C9: with A > 0 in every channel, the raw transmission get_transmission
\* has just returned for omega is, at every pixel, <= the one it returns for
\* any smaller bias and >= the one it returns for any larger bias in [0, 1].
TransmissionDecreasesWithOmega ==
    (pc = "clamp" /\ AtmospherePositive) =>
        \A other \in Biases :
            LET t == get_transmission(I, atm_light, other, w)
            IN  \A s \in Positions(rawt) :
                    /\ FLe(other, omega) => FLe(rawt[s[1]][s[2]], t[s[1]][s[2]])
                    /\ FLe(omega, other) => FLe(t[s[1]][s[2]], rawt[s[1]][s[2]])

\* C9's case: some pixel's raw transmission is strictly below the one for a
\* smaller bias.
TransmissionWitness ==
    /\ pc = "clamp" /\ AtmospherePositive
    /\ \E other \in Biases : \E s \in Positions(rawt) :
         /\ FLt(other, omega)
         /\ FLt(rawt[s[1]][s[2]],
                get_transmission(I, atm_light, other, w)[s[1]][s[2]])

\* C10: a run of main over input files that exist ends without an exception,
\* with dehaze called with t_min = --tmin, atm_max = --Amax, w = --window,
\* r = --radius, and the five result images saved for every file.
CommandLineReachesDehaze ==
    ( /\ mode = "cli" /\ args.input.given
      /\ \A k \in DOMAIN args.input.files : args.input.files[k] \in args.exist
      /\ pc \in {"done", "failed"} ) =>
        /\ err = NoErr
        /\ t_min = args.tmin /\ atm_max = args.Amax
        /\ w = args.window /\ params.r = args.radius
        /\ \A k \in DOMAIN args.input.files : \A suffix \in Suffixes :
             <<args.input.files[k], suffix>> \in saved

====
